---- MODULE Spec2Model ----
(***************************************************************************)
(* mlpack::ann::LogisticFunction (logistic_function.hpp): the scalar and   *)
(* the container forms of fn, deriv and inv, over a binary floating-point  *)
(* format with the structure of IEEE 754 double (sign, biased exponent,    *)
(* hidden bit, subnormals, signed zero, infinities, NaN, round to nearest  *)
(* even), scaled down to Prec significand bits and exponents up to EMax.   *)
(***************************************************************************)
EXTENDS Integers, Naturals, Sequences, FiniteSets, TLC

\* Significand bits of the format, hidden bit included (53 in double).
Prec == 4

\* Largest exponent of the format (1023 in double).
EMax == 7

\* Smallest normal exponent: IEEE 754 formats have emin = 1 - emax.
EMin == 1 - EMax

\* Exponent of the unit in the last place of the subnormals and of the largest
\* finite values, for an integer significand below 2^Prec.
QMin == EMin - Prec + 1

QMax == EMax - Prec + 1

\* Fraction bits of the fixed-point evaluation of exp and log: 9 guard bits.
FracBits == Prec + 9

RECURSIVE Pow2(_)
Pow2(n) == IF n <= 0 THEN 1 ELSE 2 * Pow2(n - 1)

Abs(i) == IF i < 0 THEN -i ELSE i

Min(i, j) == IF i <= j THEN i ELSE j

\* a / b rounded to the nearest integer, for a >= 0 and b > 0
RDiv(a, b) == (2 * a + b) \div (2 * b)

----------------------------------------------------------------------------
\* Values of the format.  A finite value is (-1)^s * m * 2^q with
\* 0 <= m < 2^Prec, and is kept canonical: m >= 2^(Prec-1) (normal) or
\* q = QMin (subnormal, zero).

Fin(s, m, q) == [k |-> "fin", s |-> s, m |-> m, q |-> q]

Zero(s) == Fin(s, 0, QMin)

Inf(s) == [k |-> "inf", s |-> s, m |-> 0, q |-> 0]

NaN == [k |-> "nan", s |-> 0, m |-> 0, q |-> 0]

IsNaN(a) == a.k = "nan"

IsInf(a) == a.k = "inf"

IsFinite(a) == a.k = "fin"

IsZero(a) == a.k = "fin" /\ a.m = 0

\* The finite values of the format, each once.
Finite ==
  { Fin(s, m, QMin) : s \in {0, 1}, m \in 0 .. (Pow2(Prec - 1) - 1) }
  \cup
  { Fin(s, m, q) : s \in {0, 1}, m \in Pow2(Prec - 1) .. (Pow2(Prec) - 1),
                   q \in QMin .. QMax }

One == Fin(0, Pow2(Prec - 1), 1 - Prec)

Half == Fin(0, Pow2(Prec - 1), 0 - Prec)

Quarter == Fin(0, Pow2(Prec - 1), 0 - Prec - 1)

\* std::numeric_limits<double>::max()
FMax == Fin(0, Pow2(Prec) - 1, QMax)

\* std::numeric_limits<double>::min(), the smallest normal value
FMinNormal == Fin(0, Pow2(Prec - 1), QMin)

\* A finite value in units of 2^QMin, as a signed integer.
Units(a) == (IF a.s = 1 THEN -1 ELSE 1) * a.m * Pow2(a.q - QMin)

\* An integer above every |Units(a)|, standing for infinity in comparisons.
UnitsInf == Pow2(Prec + QMax - QMin)

Ord(a) == IF a.k = "inf" THEN (IF a.s = 1 THEN -UnitsInf ELSE UnitsInf)
          ELSE Units(a)

\* The comparisons of IEEE 754: false when an operand is NaN, -0 = +0.
FLt(a, b) == ~IsNaN(a) /\ ~IsNaN(b) /\ Ord(a) < Ord(b)

FLe(a, b) == ~IsNaN(a) /\ ~IsNaN(b) /\ Ord(a) <= Ord(b)

FEq(a, b) == ~IsNaN(a) /\ ~IsNaN(b) /\ Ord(a) = Ord(b)

----------------------------------------------------------------------------
\* Rounding to nearest, ties to even, of the positive rational n/d * 2^t
\* (n >= 0, d > 0), with sign s; overflow gives infinity, underflow is gradual.

RECURSIVE NormUp(_, _, _)
NormUp(n, d, t) ==
  IF n >= Pow2(Prec + 1) * d THEN <<n, t>> ELSE NormUp(2 * n, d, t - 1)

RECURSIVE NormDown(_, _, _)
NormDown(n, d, t) ==
  IF n < Pow2(Prec + 2) * d THEN <<d, t>> ELSE NormDown(n, 2 * d, t + 1)

Round(s, n, d, t) ==
  IF n = 0 THEN Zero(s)
  ELSE
    LET up == NormUp(n, d, t)
        dn == NormDown(up[1], d, up[2])
        n1 == up[1]
        d1 == dn[1]
        t1 == dn[2]
        \* now 2^(Prec+1) <= n1/d1 < 2^(Prec+2) and the value is n1/d1 * 2^t1
        q0 == IF t1 + 2 > QMin THEN t1 + 2 ELSE QMin
        sh == q0 - t1
    IN  IF sh > Prec + 3 THEN Zero(s)
        ELSE
          LET D  == d1 * Pow2(sh)
              M0 == n1 \div D
              R  == n1 % D
              M  == IF 2 * R > D \/ (2 * R = D /\ M0 % 2 = 1)
                    THEN M0 + 1 ELSE M0
              carry == (M = Pow2(Prec))
              Mf == IF carry THEN Pow2(Prec - 1) ELSE M
              qf == IF carry THEN q0 + 1 ELSE q0
          IN  IF qf > QMax THEN Inf(s) ELSE Fin(s, Mf, qf)

----------------------------------------------------------------------------
\* The arithmetic of IEEE 754 in round to nearest even.

FNeg(a) == IF IsNaN(a) THEN NaN ELSE [a EXCEPT !.s = 1 - a.s]

FAdd(a, b) ==
  IF IsNaN(a) \/ IsNaN(b) THEN NaN
  ELSE IF IsInf(a) /\ IsInf(b) THEN (IF a.s = b.s THEN a ELSE NaN)
  ELSE IF IsInf(a) THEN a
  ELSE IF IsInf(b) THEN b
  ELSE
    LET q0 == Min(a.q, b.q)
        ka == (IF a.s = 1 THEN -1 ELSE 1) * a.m * Pow2(a.q - q0)
        kb == (IF b.s = 1 THEN -1 ELSE 1) * b.m * Pow2(b.q - q0)
        K  == ka + kb
    IN  IF K = 0 THEN Zero(IF a.s = 1 /\ b.s = 1 THEN 1 ELSE 0)
        ELSE Round(IF K < 0 THEN 1 ELSE 0, Abs(K), 1, q0)

FSub(a, b) == FAdd(a, FNeg(b))

FMul(a, b) ==
  IF IsNaN(a) \/ IsNaN(b) THEN NaN
  ELSE IF (IsInf(a) /\ IsZero(b)) \/ (IsZero(a) /\ IsInf(b)) THEN NaN
  ELSE IF IsInf(a) \/ IsInf(b) THEN Inf((a.s + b.s) % 2)
  ELSE Round((a.s + b.s) % 2, a.m * b.m, 1, a.q + b.q)

FDiv(a, b) ==
  IF IsNaN(a) \/ IsNaN(b) THEN NaN
  ELSE IF (IsInf(a) /\ IsInf(b)) \/ (IsZero(a) /\ IsZero(b)) THEN NaN
  ELSE IF IsInf(a) \/ IsZero(b) THEN Inf((a.s + b.s) % 2)
  ELSE IF IsInf(b) THEN Zero((a.s + b.s) % 2)
  ELSE Round((a.s + b.s) % 2, a.m, b.m, a.q - b.q)

----------------------------------------------------------------------------
\* std::exp and std::log, evaluated in fixed point with FracBits fraction
\* bits and rounded to the format; exp overflows to +infinity and underflows
\* gradually to 0, log(0) is -infinity and log of a negative value is NaN.

\* ln 2 in units of 2^-30.
Ln2Q30 == 744261118

Ln2 == Ln2Q30 \div Pow2(30 - FracBits)

RECURSIVE BitLen(_)
BitLen(n) == IF n = 0 THEN 0 ELSE 1 + BitLen(n \div 2)

\* term + term r / i + term r^2 / (i (i+1)) + ..., r and term in fixed point
RECURSIVE ExpSeries(_, _, _)
ExpSeries(r, term, i) ==
  IF term = 0 THEN 0
  ELSE term + ExpSeries(r, RDiv(term * r, i * Pow2(FracBits)), i + 1)

Exp(x) ==
  IF IsNaN(x) THEN NaN
  ELSE IF IsInf(x) THEN (IF x.s = 1 THEN Zero(0) ELSE Inf(0))
  ELSE IF Units(x) >= (EMax + 1) * Pow2(0 - QMin) THEN Inf(0)
  ELSE IF Units(x) <= 0 - (2 - QMin) * Pow2(0 - QMin) THEN Zero(0)
  ELSE
    LET X == Units(x) * Pow2(FracBits + QMin)
        k == X \div Ln2
        r == X - k * Ln2
    IN  Round(0, ExpSeries(r, Pow2(FracBits), 1), 1, k - FracBits)

\* p / j + p z2 / (j + 2) + p z2^2 / (j + 4) + ..., in fixed point
RECURSIVE AtanhSeries(_, _, _)
AtanhSeries(z2, p, j) ==
  IF p = 0 THEN 0
  ELSE RDiv(p, j) + AtanhSeries(z2, RDiv(p * z2, Pow2(FracBits)), j + 2)

Log(x) ==
  IF IsNaN(x) THEN NaN
  ELSE IF IsZero(x) THEN Inf(1)
  ELSE IF x.s = 1 THEN NaN
  ELSE IF IsInf(x) THEN Inf(0)
  ELSE
    LET b   == BitLen(x.m)
        m0  == x.m * Pow2(FracBits - (b - 1))
        hi  == m0 >= 3 * Pow2(FracBits - 1)
        mf  == IF hi THEN m0 \div 2 ELSE m0
        e   == x.q + (b - 1) + (IF hi THEN 1 ELSE 0)
        num == mf - Pow2(FracBits)
        z   == RDiv(Abs(num) * Pow2(FracBits), mf + Pow2(FracBits))
        z2  == RDiv(z * z, Pow2(FracBits))
        lnm == 2 * AtanhSeries(z2, z, 1)
        V   == e * Ln2 + (IF num < 0 THEN 0 - lnm ELSE lnm)
    IN  IF V = 0 THEN Zero(0)
        ELSE Round(IF V < 0 THEN 1 ELSE 0, Abs(V), 1, 0 - FracBits)

----------------------------------------------------------------------------
\* Armadillo's guarded exponential and logarithm, as called by the class:
\*   trunc_exp(x) = (x >= log_max) ? numeric_limits<double>::max() : exp(x)
\*   trunc_log(x) = (x == +infinity) ? log_max
\*                : (x <= 0) ? log_min : log(x)

\* arma::Math<double>::log_max(), the logarithm of the largest finite value
LogMax == Log(FMax)

\* arma::Math<double>::log_min(), the logarithm of the smallest normal value
LogMin == Log(FMinNormal)

trunc_exp(x) == IF FLe(LogMax, x) THEN FMax ELSE Exp(x)

trunc_log(x) ==
  IF FEq(x, Inf(0)) THEN LogMax
  ELSE IF FLe(x, Zero(0)) THEN LogMin
  ELSE Log(x)

----------------------------------------------------------------------------
\* LogisticFunction, scalar forms.

\* fn with the plain exponential in place of the guarded one.
fn_unclamped(x) == FDiv(One, FAdd(One, Exp(FNeg(x))))

\* fn without the negation of its argument.
fn_unnegated(x) == FDiv(One, FAdd(One, trunc_exp(x)))

\* fn without the parentheses around the denominator: 1.0 / 1.0 + e^-x.
fn_unparenthesised(x) == FAdd(FDiv(One, One), trunc_exp(FNeg(x)))

fn(x) == FDiv(One, FAdd(One, trunc_exp(FNeg(x))))

\* deriv with the sign of y slipped: y * (1 + y).
deriv_plus(y) == FMul(y, FAdd(One, y))

deriv(y) == FMul(y, FSub(One, y))

\* inv with the plain logarithm in place of the guarded one.
inv_plain_log(y) == Log(FDiv(y, FSub(One, y)))

\* inv with the quotient upside down: log((1 - y) / y).
inv_swapped(y) == trunc_log(FDiv(FSub(One, y), y))

inv(y) == trunc_log(FDiv(y, FSub(One, y)))

----------------------------------------------------------------------------
\* The state: the scalar calls made so far, and for the container forms the
\* memory of the matrices and the progress of each container call.

VARIABLES
  calls,   \* sequence of [op, arg, res]: the scalar calls, in order
  mem,     \* matrix name -> its elements, a sequence of values
  mem0,    \* mem when the container calls began
  thr      \* call name -> [op, src, dst, pc, i, n, t1, t2]

vars == <<calls, mem, mem0, thr>>

Ops == {"fn", "deriv", "inv"}

\* The scalar form named op.
Scalar(op, v) ==
  IF op = "fn" THEN fn(v) ELSE IF op = "deriv" THEN deriv(v) ELSE inv(v)

NoMem == [b \in {} |-> <<>>]

InitScalar ==
  /\ calls = <<>>
  /\ mem = NoMem
  /\ mem0 = NoMem
  /\ thr = NoMem

\* A first scalar call, of any form, on any finite double.
CallFirst ==
  /\ Len(calls) = 0
  /\ \E op \in Ops, x \in Finite :
       calls' = <<[op |-> op, arg |-> x, res |-> Scalar(op, x)]>>
  /\ UNCHANGED <<mem, mem0, thr>>

\* A second call of fn after a call of fn, on any finite double.
CallFnAgain ==
  /\ Len(calls) = 1
  /\ calls[1].op = "fn"
  /\ \E x \in Finite :
       calls' = Append(calls, [op |-> "fn", arg |-> x, res |-> fn(x)])
  /\ UNCHANGED <<mem, mem0, thr>>

\* A second call, of any form, on the result of the first.
CallOnResult ==
  /\ Len(calls) = 1
  /\ \E op \in Ops :
       calls' = Append(calls, [op |-> op, arg |-> calls[1].res,
                               res |-> Scalar(op, calls[1].res)])
  /\ UNCHANGED <<mem, mem0, thr>>

NextScalar == CallFirst \/ CallFnAgain \/ CallOnResult

SpecScalar == InitScalar /\ [][NextScalar]_vars

----------------------------------------------------------------------------
\* LogisticFunction, container forms.  A call out = expression(in) of
\* Armadillo first gives out the size of in, then evaluates the expression
\* element by element: it loads in[i] (once for each occurrence of the input
\* in the expression: twice in deriv and inv) and stores the result in out[i].

\* Longest matrix of the model, in elements.
MaxLen == 2

RECURSIVE SeqsOfLen(_, _)
SeqsOfLen(S, n) ==
  IF n = 0 THEN { <<>> }
  ELSE { Append(q, e) : q \in SeqsOfLen(S, n - 1), e \in S }

SeqsUpTo(S, n) == UNION { SeqsOfLen(S, k) : k \in 0 .. n }

\* Elements of the matrices of a single container call.
VecElems == { Half, One, FNeg(FMax) }

\* Elements of the input matrices of concurrent container calls.
ConcElems == { Half, One }

\* What freshly acquired, uninitialised matrix memory may hold: any value,
\* here one of two per acquisition (no element of out is read before it is
\* stored).
JunkVals == { NaN, Zero(0) }

NewCall(op, src, dst) ==
  [op |-> op, src |-> src, dst |-> dst, pc |-> "resize", i |-> 0, n |-> 0,
   t1 |-> NaN, t2 |-> NaN]

\* One container call, on a matrix "a" of any shape, writing to "a" itself or
\* to a matrix "b" of any prior shape and contents.
InitVec ==
  /\ calls = <<>>
  /\ mem \in [{"a", "b"} -> SeqsUpTo(VecElems, MaxLen)]
  /\ mem0 = mem
  /\ \E op \in Ops, dst \in {"a", "b"} :
       thr = [t \in {"t1"} |-> NewCall(op, "a", dst)]

\* Two concurrent container calls on pairwise disjoint matrices.
InitConc ==
  /\ calls = <<>>
  /\ \E ia \in SeqsUpTo(ConcElems, MaxLen), ic \in SeqsUpTo(ConcElems, MaxLen) :
       mem = [b \in {"a", "b", "c", "d"} |->
                IF b = "a" THEN ia ELSE IF b = "c" THEN ic
                ELSE IF b = "b" THEN <<>> ELSE <<Zero(0)>>]
  /\ mem0 = mem
  /\ \E op1 \in Ops, op2 \in Ops :
       thr = [t \in {"t1", "t2"} |->
                IF t = "t1" THEN NewCall(op1, "a", "b")
                ELSE NewCall(op2, "c", "d")]

\* The value stored for one element, from the loads of the input element.
Elem(op, t1, t2) ==
  IF op = "fn" THEN FDiv(One, FAdd(One, trunc_exp(FNeg(t1))))
  ELSE IF op = "deriv" THEN FMul(t1, FSub(One, t2))
  ELSE trunc_log(FDiv(t1, FSub(One, t2)))

\* out takes the size of in: its memory is kept when the element count is
\* unchanged and is acquired anew, uninitialised, otherwise.
\* Resize that only ever grows out: a larger out keeps its shape.
Resize_grow_only(t) ==
  /\ thr[t].pc = "resize"
  /\ LET c == thr[t]
         n == Len(mem[c.src])
     IN  /\ IF Len(mem[c.dst]) >= n
            THEN mem' = mem
            ELSE \E j \in JunkVals :
                   mem' = [mem EXCEPT ![c.dst] = [k \in 1 .. n |-> j]]
         /\ thr' = [thr EXCEPT ![t].n = n, ![t].i = 1,
                               ![t].pc = IF n = 0 THEN "done" ELSE "load1"]
  /\ UNCHANGED <<calls, mem0>>

Resize(t) ==
  /\ thr[t].pc = "resize"
  /\ LET c == thr[t]
         n == Len(mem[c.src])
     IN  /\ IF Len(mem[c.dst]) = n
            THEN mem' = mem
            ELSE \E j \in JunkVals :
                   mem' = [mem EXCEPT ![c.dst] = [k \in 1 .. n |-> j]]
         /\ thr' = [thr EXCEPT ![t].n = n, ![t].i = 1,
                               ![t].pc = IF n = 0 THEN "done" ELSE "load1"]
  /\ UNCHANGED <<calls, mem0>>

\* Load1 into a temporary that is static, shared by all the calls.
Load1_static(t) ==
  /\ thr[t].pc = "load1"
  /\ LET c == thr[t]
         v == mem[c.src][c.i]
     IN  thr' = [u \in DOMAIN thr |->
                   IF u = t
                   THEN [c EXCEPT !.t1 = v,
                                  !.pc = IF c.op = "fn" THEN "store" ELSE "load2"]
                   ELSE [thr[u] EXCEPT !.t1 = v]]
  /\ UNCHANGED <<calls, mem, mem0>>

Load1(t) ==
  /\ thr[t].pc = "load1"
  /\ LET c == thr[t]
     IN  thr' = [thr EXCEPT ![t].t1 = mem[c.src][c.i],
                            ![t].pc = IF c.op = "fn" THEN "store" ELSE "load2"]
  /\ UNCHANGED <<calls, mem, mem0>>

Load2(t) ==
  /\ thr[t].pc = "load2"
  /\ LET c == thr[t]
     IN  thr' = [thr EXCEPT ![t].t2 = mem[c.src][c.i], ![t].pc = "store"]
  /\ UNCHANGED <<calls, mem, mem0>>

Store(t) ==
  /\ thr[t].pc = "store"
  /\ LET c == thr[t]
     IN  /\ mem' = [mem EXCEPT ![c.dst][c.i] = Elem(c.op, c.t1, c.t2)]
         /\ thr' = [thr EXCEPT ![t].i = c.i + 1,
                               ![t].pc = IF c.i = c.n THEN "done" ELSE "load1"]
  /\ UNCHANGED <<calls, mem0>>

\* A step of any of the container calls in progress.
StepResize == \E t \in DOMAIN thr : Resize(t)

StepLoad1 == \E t \in DOMAIN thr : Load1(t)

StepLoad2 == \E t \in DOMAIN thr : Load2(t)

StepStore == \E t \in DOMAIN thr : Store(t)

NextVec == StepResize \/ StepLoad1 \/ StepLoad2 \/ StepStore

SpecVec == InitVec /\ [][NextVec]_vars

SpecConc == InitConc /\ [][NextVec]_vars

----------------------------------------------------------------------------
\* Properties of the scalar forms, checked under SpecScalar.

\* The machine epsilon 2^(1-Prec) (2^-52 in double) in units of 2^QMin: the
\* tolerance of the approximate equalities below.  The tolerances of the
\* specification (1e-9) are millions of epsilons in double.
EpsUnits == Pow2(1 - Prec - QMin)

OneUnits == Units(One)

\* The calls of the form op made so far on a finite argument.
CallsOf(op) ==
  { i \in 1 .. Len(calls) : calls[i].op = op /\ IsFinite(calls[i].arg) }

\* C1 as stated: for every finite x, 0 < fn(x) < 1 strictly.
C1_AsStated ==
  \A i \in CallsOf("fn") :
    FLt(Zero(0), calls[i].res) /\ FLt(calls[i].res, One)

\* C1 amended: for every finite x, fn(x) is finite with 0 < fn(x) <= 1; the
\* value 1 is attained once 1 + trunc_exp(-x) rounds to 1.
C1_Range ==
  \A i \in CallsOf("fn") :
    /\ IsFinite(calls[i].res)
    /\ FLt(Zero(0), calls[i].res)
    /\ FLe(calls[i].res, One)

\* fn was called where trunc_exp clamps (x = -max) and where 1 + e^-x rounds
\* to 1 (x = max): the first result is a positive subnormal, the second is 1.
C1_Witness ==
  /\ Len(calls) = 2
  /\ calls[1].op = "fn" /\ calls[1].arg = FNeg(FMax)
  /\ calls[1].res.m > 0 /\ calls[1].res.m < Pow2(Prec - 1)
  /\ calls[1].res.q = QMin
  /\ calls[2].op = "fn" /\ calls[2].arg = FMax /\ calls[2].res = One

\* C3 as stated: inv(0) is negative infinity and inv(1) is positive infinity.
C3_AsStated ==
  \A i \in CallsOf("inv") :
    /\ IsZero(calls[i].arg) => calls[i].res = Inf(1)
    /\ calls[i].arg = One => calls[i].res = Inf(0)

\* C3 amended: inv validates nothing and saturates at the boundary: inv(0) is
\* the finite value log_min and inv(1) the finite value log_max, so a test for
\* non-finiteness does not detect the boundary inputs.
C3_Saturates ==
  \A i \in CallsOf("inv") :
    /\ IsZero(calls[i].arg) => calls[i].res = LogMin /\ IsFinite(calls[i].res)
    /\ calls[i].arg = One => calls[i].res = LogMax /\ IsFinite(calls[i].res)

\* inv was called on 1, where y / (1 - y) is 1 / 0 = +infinity.
C3_Witness ==
  /\ Len(calls) = 1
  /\ calls[1].op = "inv" /\ calls[1].arg = One
  /\ FDiv(One, FSub(One, One)) = Inf(0)
  /\ calls[1].res = LogMax

\* C4: for every finite y, 0, 1 and values outside [0, 1] included, inv(y)
\* is not NaN; at and outside the boundary it is a saturated extreme value.
C4_InvNeverNaN ==
  \A i \in CallsOf("inv") :
    /\ ~IsNaN(calls[i].res)
    /\ (FLe(calls[i].arg, Zero(0)) \/ FLe(One, calls[i].arg))
         => calls[i].res \in {LogMin, LogMax}

\* inv was called on a value above 1, where y / (1 - y) is negative and a
\* plain logarithm would give NaN.
C4_Witness ==
  /\ Len(calls) = 1
  /\ calls[1].op = "inv" /\ calls[1].arg = FMax
  /\ FLt(FDiv(FMax, FSub(One, FMax)), Zero(0))
  /\ calls[1].res = LogMin

\* 0.001 <= y <= 0.999
Interior(y) ==
  /\ IsFinite(y)
  /\ 1000 * Units(y) >= OneUnits
  /\ 1000 * Units(y) <= 999 * OneUnits

\* C5: for every y in [0.001, 0.999], fn(inv(y)) equals y within tolerance.
C5_RoundTrip ==
  (/\ Len(calls) = 2
   /\ calls[1].op = "inv" /\ Interior(calls[1].arg)
   /\ calls[2].op = "fn" /\ calls[2].arg = calls[1].res)
  => /\ IsFinite(calls[2].res)
     /\ Abs(Units(calls[2].res) - Units(calls[1].arg)) <= EpsUnits

\* fn was called on inv(y) for the largest y below 1.
C5_Witness ==
  /\ Len(calls) = 2
  /\ calls[1].op = "inv" /\ Interior(calls[1].arg)
  /\ Units(calls[1].arg) = OneUnits - EpsUnits \div 2
  /\ calls[2].op = "fn" /\ calls[2].arg = calls[1].res

\* Two calls of fn, on finite x1 < x2.
Ascending ==
  /\ Len(calls) = 2
  /\ calls[1].op = "fn" /\ calls[2].op = "fn"
  /\ IsFinite(calls[1].arg) /\ IsFinite(calls[2].arg)
  /\ FLt(calls[1].arg, calls[2].arg)

\* C6 as stated: for all finite x1 < x2, fn(x1) < fn(x2) strictly.
C6_AsStated == Ascending => FLt(calls[1].res, calls[2].res)

\* C6 amended: for all finite x1 < x2, fn(x1) <= fn(x2): fn never decreases,
\* and is constant where its results round to the same double, as in the
\* range where it saturates at 1.
C6_NonDecreasing == Ascending => FLe(calls[1].res, calls[2].res)

\* fn was called on two different arguments of the saturated range.
C6_Witness ==
  /\ Ascending
  /\ FLe(LogMax, calls[1].arg)
  /\ calls[1].res = One /\ calls[2].res = One

\* C7: for every finite x, fn(x) + fn(-x) = 1 within tolerance.
C7_Symmetry ==
  (/\ Len(calls) = 2
   /\ calls[1].op = "fn" /\ calls[2].op = "fn"
   /\ IsFinite(calls[1].arg) /\ calls[2].arg = FNeg(calls[1].arg))
  => /\ IsFinite(calls[1].res) /\ IsFinite(calls[2].res)
     /\ Abs(Units(calls[1].res) + Units(calls[2].res) - OneUnits) <= EpsUnits

\* fn was called on x and -x with x so large that trunc_exp clamps for -x.
C7_Witness ==
  /\ Len(calls) = 2
  /\ calls[1].op = "fn" /\ calls[2].op = "fn"
  /\ calls[1].arg = FNeg(FMax) /\ calls[2].arg = FMax
  /\ trunc_exp(FMax) = FMax
  /\ ~IsZero(calls[1].res)

\* C8: for every finite x, fn(x) is finite and not NaN; beyond the clamp of
\* trunc_exp it is 1 within tolerance for positive x and 0 within tolerance
\* for negative x.
C8_Saturation ==
  \A i \in CallsOf("fn") :
    /\ IsFinite(calls[i].res)
    /\ FLe(LogMax, calls[i].arg)
         => Abs(Units(calls[i].res) - OneUnits) <= EpsUnits
    /\ FLe(calls[i].arg, FNeg(LogMax))
         => Abs(Units(calls[i].res)) <= EpsUnits

\* fn was called on the most negative finite value.
C8_Witness ==
  /\ Len(calls) = 1
  /\ calls[1].op = "fn" /\ calls[1].arg = FNeg(FMax)
  /\ IsFinite(calls[1].res)

----------------------------------------------------------------------------
\* Properties of the container forms, checked under SpecVec and SpecConc.

\* C2: a finished container call leaves out with the shape of the input and
\* with each element equal to the scalar form of the input element at the
\* same position, whatever out held before.
C2_ContainerParity ==
  \A t \in DOMAIN thr :
    thr[t].pc = "done" =>
      LET c  == thr[t]
          in == mem0[c.src]
      IN  /\ Len(mem[c.dst]) = Len(in)
          /\ \A j \in 1 .. Len(in) : mem[c.dst][j] = Scalar(c.op, in[j])

\* A container call of inv has finished on an input of MaxLen elements and
\* an output matrix that had another shape before.
C2_Witness ==
  /\ thr["t1"].pc = "done" /\ thr["t1"].op = "inv" /\ thr["t1"].dst = "b"
  /\ Len(mem0["a"]) = MaxLen
  /\ Len(mem0["b"]) # Len(mem0["a"])
  /\ mem["b"] # mem0["b"]
  /\ mem0["a"][1] # mem0["a"][MaxLen]

\* What a call has written: out has the shape of the input (once resized)
\* and the elements stored so far are the scalar forms of the input elements.
SoloProgress(t) ==
  LET c  == thr[t]
      in == mem0[c.src]
  IN  IF c.pc = "resize" THEN mem[c.dst] = mem0[c.dst]
      ELSE /\ Len(mem[c.dst]) = Len(in)
           /\ \A j \in 1 .. (c.i - 1) : mem[c.dst][j] = Scalar(c.op, in[j])

InputsKept == \A t \in DOMAIN thr : mem[thr[t].src] = mem0[thr[t].src]

\* A step changes only the stepping call's own progress and output matrix.
OwnWritesOnly ==
  \E t \in DOMAIN thr :
    /\ \A u \in DOMAIN thr \ {t} : thr'[u] = thr[u]
    /\ \A b \in DOMAIN mem \ {thr[t].dst} : mem'[b] = mem[b]

\* C10: under every interleaving of the loads and stores of concurrent
\* container calls on pairwise disjoint matrices, each call writes what it
\* writes when run alone, no input is modified, and a step touches nothing
\* but the stepping call's own output.
C10_DisjointCallsIndependent ==
  /\ [](InputsKept /\ \A t \in DOMAIN thr : SoloProgress(t))
  /\ [][OwnWritesOnly]_vars

\* Two container calls of different forms are both between a load and a
\* store, the second one element ahead of the first.
C10_Witness ==
  /\ DOMAIN thr = {"t1", "t2"}
  /\ thr["t1"].op # thr["t2"].op
  /\ thr["t1"].pc = "store" /\ thr["t1"].i = 1
  /\ thr["t2"].pc = "store" /\ thr["t2"].i = 2
  /\ thr["t1"].t1 # thr["t2"].t1

====
